---- MODULE Spec2Model ----
(***************************************************************************)
(* Model of Resources/Scripts/train_yolov8.py: the JSON-line event emitter *)
(* and the job controller train_yolov8 that drives the training engine,    *)
(* translates its callbacks into events and maps every way the run can end *)
(* to a terminal event and a process exit code.                            *)
(*                                                                         *)
(* The controller is modelled statement by statement: pc names the source  *)
(* line about to execute.  An exception (a fault of the statement at pc,   *)
(* or a KeyboardInterrupt delivered while control is at pc) is dispatched  *)
(* to the except clause that Python's try/except nesting selects for that  *)
(* line, or leaves the process uncaught.  Each except clause (its emission *)
(* followed by sys.exit) and each callback invocation is one step.         *)
(*                                                                         *)
(* The training engine is an external library.  Its side of the contract   *)
(* (the order in which it fires the registered callbacks, what it writes   *)
(* to disk, what it returns) is modelled from the collaborator interface   *)
(* of the specification (sections 4.2, 5 and 6); everything it decides by  *)
(* itself is a nondeterministic choice.                                    *)
(***************************************************************************)
EXTENDS Integers, Sequences, FiniteSets, TLC

VARIABLES
    cfg,        \* the arguments of train_yolov8 (epochs, resume, output_dir, ...)
    pc,         \* the source line the controller is about to execute
    stream,     \* stdout: the sequence of JSON records printed so far
    fsAtEmit,   \* history: the filesystem as it was when stream[i] was printed
    fs,         \* the filesystem: the set of paths that exist
    exc,        \* the exception raised in this run, if any, and where
    exitCode,   \* the process exit status, -1 while the process runs
    loaded,     \* the argument YOLO(...) was constructed with, None before
    trainArgs,  \* the keyword arguments model.train was called with, None before
    trainer,    \* the engine's trainer handle passed to the callbacks
    eng,        \* the engine's position inside model.train
    results,    \* results_dict of the value model.train returned
    hookLog     \* history: the callback invocations that returned

vars == <<cfg, pc, stream, fsAtEmit, fs, exc, exitCode, loaded, trainArgs,
          trainer, eng, results, hookLog>>

-----------------------------------------------------------------------------
(* Bounds of the model *)

MaxEpochs == 2
NumBatches == 11
MaxCalls == 2

-----------------------------------------------------------------------------
(* Python values *)

None == <<>>
Some(x) == <<x>>

\* dict.get(key, default)
Get(d, k, default) == IF k \in DOMAIN d THEN d[k] ELSE default

\* dict.update / {**d, **e}: the keys of e replace those of d
Update(d, e) == [k \in DOMAIN d \cup DOMAIN e |-> IF k \in DOMAIN e THEN e[k] ELSE d[k]]

\* pathlib's "/" and the f-string "{a}/b/c": a path is its sequence of components
PathJoin(p, q) == p \o q

-----------------------------------------------------------------------------
(* Event emitter *)

\* emit: the record {"type": event_type, **kwargs} that is printed as one line
emit(event_type, kwargs) == Update([type |-> event_type], kwargs)

log(level, message) == emit("log", [level |-> level, message |-> message])

progress(epoch, total_epochs, step, total_steps) ==
    emit("progress", [epoch |-> epoch, totalEpochs |-> total_epochs,
                      step |-> step, totalSteps |-> total_steps])

metric(epoch, loss, accuracy, step, extra) ==
    LET data0 == [epoch |-> epoch, loss |-> loss]
        data1 == IF accuracy # None THEN Update(data0, [accuracy |-> accuracy[1]]) ELSE data0
        data2 == IF step # None THEN Update(data1, [step |-> step[1]]) ELSE data1
    IN  emit("metric", Update(data2, extra))

checkpoint(path, epoch) == emit("checkpoint", [path |-> path, epoch |-> epoch])

completed(final_loss, final_accuracy, duration) ==
    emit("completed", [finalLoss |-> final_loss, finalAccuracy |-> final_accuracy,
                       duration |-> duration])

error(message) == emit("error", [message |-> message])

-----------------------------------------------------------------------------
(* Configuration, paths, and what the engine reports *)

Configs ==
    [model_variant : {"yolov8n"}, dataset : {"coco128"}, epochs : 1..MaxEpochs,
     output_dir : {<<"runs", "detect">>}, resume : BOOLEAN]

\* f"{output_dir}/weights/last.pt", the file the startup policy looks for
LastCheckpointPath(output_dir) == PathJoin(output_dir, <<"weights", "last.pt">>)

\* Path(output_dir) / "train" / "weights" / "best.pt", the final check
BestWeightsPath(output_dir) == PathJoin(output_dir, <<"train", "weights", "best.pt">>)

\* f"{model_variant}.pt", the pretrained baseline
PretrainedName(model_variant) == <<model_variant, ".pt">>

\* the engine's run directory: project / name
SaveDir(args) == PathJoin(args.project, <<args.name>>)
EngineLast(save_dir) == PathJoin(save_dir, <<"weights", "last.pt">>)
EngineBest(save_dir) == PathJoin(save_dir, <<"weights", "best.pt">>)

\* every path the controller or the engine touches, for a given output_dir
AllPaths(output_dir) ==
    { LastCheckpointPath(output_dir),
      EngineLast(PathJoin(output_dir, <<"train">>)),
      EngineBest(PathJoin(output_dir, <<"train">>)) }

EmptyDict == <<>>

\* metrics mappings the engine may expose on the trainer at an epoch end
\* (numbers are in units of 1e-4; a key may be missing)
MetricsSamples ==
    { ("train/box_loss" :> 3) @@ ("train/cls_loss" :> 2) @@ ("train/dfl_loss" :> 1)
        @@ ("metrics/mAP50(B)" :> 5) @@ ("metrics/mAP50-95(B)" :> 4),
      ("train/box_loss" :> 1) @@ ("metrics/mAP50(B)" :> 7) }

\* results_dict of the value train returns ({} when it has no results_dict)
ResultsSamples ==
    { EmptyDict,
      ("train/box_loss" :> 3) @@ ("train/cls_loss" :> 2) @@ ("train/dfl_loss" :> 1)
        @@ ("metrics/mAP50(B)" :> 5) @@ ("metrics/mAP50-95(B)" :> 4) }

NoTrainer == [epoch |-> 0, batch |-> 0, metrics |-> EmptyDict, save_dir |-> <<>>,
              train_loader |-> 0]

-----------------------------------------------------------------------------
(* The callbacks train_yolov8 registers: the events one invocation prints *)
(* (float(x) keeps the value of a number x; numbers are in units of 1e-4) *)

Cadence == 10

\* mutant: the progress event is printed before the metric event
on_train_epoch_end_ProgressFirst(t, epochs) ==
    LET epoch == t.epoch + 1
        total_loss == Get(t.metrics, "train/box_loss", 0) + Get(t.metrics, "train/cls_loss", 0)
                        + Get(t.metrics, "train/dfl_loss", 0)
        map50 == Get(t.metrics, "metrics/mAP50(B)", 0)
    IN  << progress(epoch, epochs, None, None),
           metric(epoch, total_loss, Some(map50), None, EmptyDict),
           log("info", <<"Epoch {}/{} - Loss: {}, mAP50: {}, mAP50-95: {}",
                         epoch, epochs, total_loss, map50, 0>>) >>

\* mutant: the epoch-level progress event is forgotten
on_train_epoch_end_NoProgress(t, epochs) ==
    LET epoch == t.epoch + 1
        total_loss == Get(t.metrics, "train/box_loss", 0) + Get(t.metrics, "train/cls_loss", 0)
                        + Get(t.metrics, "train/dfl_loss", 0)
        map50 == Get(t.metrics, "metrics/mAP50(B)", 0)
    IN  << metric(epoch, total_loss, Some(map50), None, EmptyDict),
           log("info", <<"Epoch {}/{} - Loss: {}, mAP50: {}, mAP50-95: {}",
                         epoch, epochs, total_loss, map50, 0>>) >>

\* mutant: the dfl component is left out of the summed loss
on_train_epoch_end_NoDfl(t, epochs) ==
    LET epoch == t.epoch + 1
        box_loss == Get(t.metrics, "train/box_loss", 0)
        cls_loss == Get(t.metrics, "train/cls_loss", 0)
        dfl_loss == Get(t.metrics, "train/dfl_loss", 0)
        total_loss == box_loss + cls_loss
        map50 == Get(t.metrics, "metrics/mAP50(B)", 0)
        map50_95 == Get(t.metrics, "metrics/mAP50-95(B)", 0)
    IN  << metric(epoch, total_loss, Some(map50), None,
                  [mAP50 |-> map50, mAP50_95 |-> map50_95, box_loss |-> box_loss,
                   cls_loss |-> cls_loss, dfl_loss |-> dfl_loss]),
           progress(epoch, epochs, None, None),
           log("info", <<"Epoch {}/{} - Loss: {}, mAP50: {}, mAP50-95: {}",
                         epoch, epochs, total_loss, map50, map50_95>>) >>

on_train_epoch_end(t, epochs) ==
    LET epoch == t.epoch + 1
        metrics == t.metrics
        box_loss == Get(metrics, "train/box_loss", 0)
        cls_loss == Get(metrics, "train/cls_loss", 0)
        dfl_loss == Get(metrics, "train/dfl_loss", 0)
        total_loss == box_loss + cls_loss + dfl_loss
        map50 == Get(metrics, "metrics/mAP50(B)", 0)
        map50_95 == Get(metrics, "metrics/mAP50-95(B)", 0)
    IN  << metric(epoch, total_loss, Some(map50), None,
                  [mAP50 |-> map50, mAP50_95 |-> map50_95, box_loss |-> box_loss,
                   cls_loss |-> cls_loss, dfl_loss |-> dfl_loss]),
           progress(epoch, epochs, None, None),
           log("info", <<"Epoch {}/{} - Loss: {}, mAP50: {}, mAP50-95: {}",
                         epoch, epochs, total_loss, map50, map50_95>>) >>

\* mutant: the batch-level event reports the engine's zero-based epoch index
on_train_batch_end_ZeroBased(t, epochs) ==
    IF t.batch % Cadence = 0
    THEN << progress(t.epoch, epochs, Some(t.batch), Some(t.train_loader)) >>
    ELSE << >>

\* mutant: no sampling, every batch is reported
on_train_batch_end_EveryBatch(t, epochs) ==
    << progress(t.epoch + 1, epochs, Some(t.batch), Some(t.train_loader)) >>

on_train_batch_end(t, epochs) ==
    IF t.batch % Cadence = 0
    THEN << progress(t.epoch + 1, epochs, Some(t.batch), Some(t.train_loader)) >>
    ELSE << >>

on_model_save(t) ==
    << checkpoint(PathJoin(t.save_dir, <<"weights", "best.pt">>), t.epoch + 1) >>

-----------------------------------------------------------------------------
(* Control flow of train_yolov8 and Python's exception dispatch *)

\* lines of the try block of lines 80-172
TryBody == {"L82", "L84", "L87", "L139", "L141", "L157", "L164", "L165",
            "L169", "L170", "L172", "L173"}

\* lines outside that try block: the import (in its own try) and the four logs
Prologue == {"L63", "L75", "L76", "L77", "L78"}

\* lines whose statement can raise an Exception: the import, every emission
\* (a failed write to stdout), the model load, the train call and its
\* callbacks, and the conversion of the final results
Faultable == {"L63", "L75", "L76", "L77", "L78", "L82", "L84", "L87", "L139",
              "L141", "L157", "L164", "L165", "L170", "L172"}

\* exc.emitted is the number of events printed when the exception was raised
NoExc == [kind |-> "none", msg |-> <<>>, at |-> "none", emitted |-> 0]

\* mutant: the try block of lines 80-172 has no except KeyboardInterrupt clause
Handler_NoInterruptClause(at, kind) ==
    IF at = "L63" /\ kind = "ImportError" THEN "except_ImportError"
    ELSE IF at \in TryBody /\ kind \in {"Exception", "ImportError"} THEN "except_Exception"
    ELSE "uncaught"

\* the except clause that receives an exception of `kind` raised at line `at`
Handler(at, kind) ==
    IF at = "L63" /\ kind = "ImportError" THEN "except_ImportError"
    ELSE IF at \in TryBody /\ kind = "KeyboardInterrupt" THEN "except_KeyboardInterrupt"
    ELSE IF at \in TryBody /\ kind \in {"Exception", "ImportError"} THEN "except_Exception"
    ELSE "uncaught"

\* str(e) of a fault raised at a line
FaultMsg(at) == <<"fault raised at", at>>

\* print(json.dumps(event), flush=True) for each event, in order; `disk` is
\* the filesystem at that moment
Stdout(events, disk) ==
    /\ stream' = stream \o events
    /\ fsAtEmit' = fsAtEmit \o [i \in 1..Len(events) |-> disk]

Init ==
    /\ cfg \in Configs
    /\ pc = "L63"
    /\ stream = <<>>
    /\ fsAtEmit = <<>>
    /\ fs \in SUBSET AllPaths(cfg.output_dir)
    /\ exc = NoExc
    /\ exitCode = -1
    /\ loaded = None
    /\ trainArgs = None
    /\ trainer = NoTrainer
    /\ eng = "idle"
    /\ results = EmptyDict
    /\ hookLog = <<>>

\* a statement that prints one event and falls through to the next line
Step(at, events, next) ==
    /\ pc = at
    /\ Stdout(events, fs)
    /\ pc' = next
    /\ UNCHANGED <<cfg, fs, exc, exitCode, loaded, trainArgs, trainer, eng, results, hookLog>>

\* lines 63-68: the engine imports
Import ==
    /\ pc = "L63"
    /\ pc' = "L75"
    /\ UNCHANGED <<cfg, stream, fsAtEmit, fs, exc, exitCode, loaded, trainArgs, trainer,
                   eng, results, hookLog>>

\* lines 75-78: the four initial log events
InitLogs ==
    \/ Step("L75", << log("info", <<"Initializing YOLOv8 training...">>) >>, "L76")
    \/ Step("L76", << log("info", <<"Model: {}, Dataset: {}, Epochs: {}",
                                    cfg.model_variant, cfg.dataset, cfg.epochs>>) >>, "L77")
    \/ Step("L77", << log("info", <<"Batch size: {}, Image size: {}, LR: {}">>) >>, "L78")
    \/ Step("L78", << log("info", <<"Device: {}">>) >>, "L82")

\* mutant: the existence of the last checkpoint is not looked at
ResumeCondition_FlagOnly == cfg.resume

\* line 82: the startup policy
ResumeCondition == cfg.resume /\ LastCheckpointPath(cfg.output_dir) \in fs

\* lines 82-83, 85-86: the branch and its log event
LoadDecision ==
    IF ResumeCondition
    THEN Step("L82", << log("info", <<"Resuming from last checkpoint...">>) >>, "L84")
    ELSE Step("L82", << log("info", <<"Loading pretrained {} model...", cfg.model_variant>>) >>, "L87")

\* lines 84, 87 and 134-136: construct the model, register the callbacks
LoadModel ==
    /\ \/ pc = "L84" /\ loaded' = Some(LastCheckpointPath(cfg.output_dir))
       \/ pc = "L87" /\ loaded' = Some(PretrainedName(cfg.model_variant))
    /\ pc' = "L139"
    /\ UNCHANGED <<cfg, stream, fsAtEmit, fs, exc, exitCode, trainArgs, trainer, eng,
                   results, hookLog>>

\* line 139
StartLog == Step("L139", << log("info", <<"Starting training...">>) >>, "L141")

\* lines 141-154: the keyword arguments of model.train
TrainKwargs ==
    [data |-> cfg.dataset, epochs |-> cfg.epochs, project |-> cfg.output_dir,
     name |-> "train", exist_ok |-> TRUE, verbose |-> FALSE, plots |-> TRUE,
     patience |-> 0]

\* the index of the first epoch a checkpoint left to train (it was saved
\* after one epoch)
CheckpointNextEpoch == 1

\* the epoch index the engine starts from: the checkpoint's next epoch when
\* train is asked to resume, 0 otherwise
StartEpoch(args) ==
    IF "resume" \in DOMAIN args /\ args.resume THEN CheckpointNextEpoch ELSE 0

\* line 141: model.train is entered; the engine sets up its trainer
TrainCall ==
    /\ pc = "L141" /\ eng = "idle"
    /\ trainArgs' = Some(TrainKwargs)
    /\ trainer' = [epoch |-> StartEpoch(TrainKwargs), batch |-> 0, metrics |-> EmptyDict,
                   save_dir |-> SaveDir(TrainKwargs), train_loader |-> NumBatches]
    /\ eng' = "batch"
    /\ UNCHANGED <<cfg, pc, stream, fsAtEmit, fs, exc, exitCode, loaded, results, hookLog>>

\* the engine invokes a registered callback, which prints its events and returns
Fire(hook, events, disk) ==
    /\ Stdout(events, disk)
    /\ hookLog' = Append(hookLog, [hook |-> hook, epoch |-> trainer'.epoch,
                                   batch |-> trainer'.batch, from |-> Len(stream),
                                   to |-> Len(stream) + Len(events)])

\* the engine finishes batch trainer.batch of the current epoch
EngineBatchEnd ==
    /\ pc = "L141" /\ eng = "batch"
    /\ trainer' = trainer
    /\ Fire("on_train_batch_end", on_train_batch_end(trainer, cfg.epochs), fs)
    /\ eng' = IF trainer.batch + 1 < trainer.train_loader THEN "next_batch" ELSE "epoch_end"
    /\ UNCHANGED <<cfg, pc, fs, exc, exitCode, loaded, trainArgs, results>>

\* the engine moves to the next batch
EngineNextBatch ==
    /\ pc = "L141" /\ eng = "next_batch"
    /\ trainer' = [trainer EXCEPT !.batch = @ + 1]
    /\ eng' = "batch"
    /\ UNCHANGED <<cfg, pc, stream, fsAtEmit, fs, exc, exitCode, loaded, trainArgs,
                   results, hookLog>>

\* the engine finishes the epoch: it exposes the epoch's metrics
EngineEpochEnd ==
    /\ pc = "L141" /\ eng = "epoch_end"
    /\ \E m \in MetricsSamples : trainer' = [trainer EXCEPT !.metrics = m]
    /\ Fire("on_train_epoch_end", on_train_epoch_end(trainer', cfg.epochs), fs)
    /\ eng' = "save"
    /\ UNCHANGED <<cfg, pc, fs, exc, exitCode, loaded, trainArgs, results>>

\* the engine decides to persist weights: always the last-weights file, the
\* best-weights file only when it judges the epoch the best so far
EngineSave ==
    /\ pc = "L141" /\ eng = "save"
    /\ trainer' = trainer
    /\ \E best \in BOOLEAN :
          LET disk == fs \cup {EngineLast(trainer.save_dir)}
                         \cup (IF best THEN {EngineBest(trainer.save_dir)} ELSE {})
          IN  /\ fs' = disk
              /\ Fire("on_model_save", on_model_save(trainer), disk)
    /\ eng' = "next_epoch"
    /\ UNCHANGED <<cfg, pc, exc, exitCode, loaded, trainArgs, results>>

\* the engine moves to the next epoch, or has run all of trainArgs.epochs
EngineNextEpoch ==
    /\ pc = "L141" /\ eng \in {"save", "next_epoch"}
    /\ IF trainer.epoch + 1 < trainArgs[1].epochs
       THEN /\ trainer' = [trainer EXCEPT !.epoch = @ + 1, !.batch = 0]
            /\ eng' = "batch"
       ELSE /\ trainer' = trainer
            /\ eng' = "finished"
    /\ UNCHANGED <<cfg, pc, stream, fsAtEmit, fs, exc, exitCode, loaded, trainArgs,
                   results, hookLog>>

\* model.train returns its results
EngineReturn ==
    /\ pc = "L141" /\ eng = "finished"
    /\ results' \in ResultsSamples
    /\ eng' = "returned"
    /\ pc' = "L157"
    /\ UNCHANGED <<cfg, stream, fsAtEmit, fs, exc, exitCode, loaded, trainArgs, trainer,
                   hookLog>>

\* lines 157-162: duration and the final metrics
final_map50 == Get(results, "metrics/mAP50(B)", 0)
final_loss == Get(results, "train/box_loss", 0) + Get(results, "train/cls_loss", 0)
                + Get(results, "train/dfl_loss", 0)

Finals ==
    /\ pc = "L157"
    /\ pc' = "L164"
    /\ UNCHANGED <<cfg, stream, fsAtEmit, fs, exc, exitCode, loaded, trainArgs, trainer,
                   eng, results, hookLog>>

\* lines 164-165
FinalLogs ==
    \/ Step("L164", << log("info", <<"Training completed in {}s", "duration">>) >>, "L165")
    \/ Step("L165", << log("info", <<"Final mAP50: {}", final_map50>>) >>, "L169")

\* lines 168-169: does the best-weights artifact exist?
BestExists ==
    /\ pc = "L169"
    /\ pc' = IF BestWeightsPath(cfg.output_dir) \in fs THEN "L170" ELSE "L172"
    /\ UNCHANGED <<cfg, stream, fsAtEmit, fs, exc, exitCode, loaded, trainArgs, trainer,
                   eng, results, hookLog>>

\* line 170
FinalCheckpoint ==
    Step("L170", << checkpoint(BestWeightsPath(cfg.output_dir), cfg.epochs) >>, "L172")

\* line 172
Completed ==
    Step("L172", << completed(final_loss, final_map50, "duration") >>, "L173")

\* the process ends with sys.exit(code), or by falling off main (code 0)
Exit(code) ==
    /\ pc' = "exited"
    /\ exitCode' = code

\* after line 172: the try block is left, train_yolov8 and main return
Return ==
    /\ pc = "L173"
    /\ Exit(0)
    /\ UNCHANGED <<cfg, stream, fsAtEmit, fs, exc, loaded, trainArgs, trainer, eng,
                   results, hookLog>>

\* the statement at pc raises: `kind` is ImportError only for the import
Raise(kind) ==
    /\ exc' = [kind |-> kind, at |-> pc, emitted |-> Len(stream),
               msg |-> IF kind = "KeyboardInterrupt" THEN <<>> ELSE FaultMsg(pc)]
    /\ pc' = Handler(pc, kind)
    /\ UNCHANGED <<cfg, stream, fsAtEmit, fs, exitCode, loaded, trainArgs, trainer, eng,
                   results, hookLog>>

\* the training engine is not installed
ImportFails == pc = "L63" /\ Raise("ImportError")

\* any other failure of the statement at pc
Fault == pc \in Faultable /\ Raise("Exception")

\* SIGINT is delivered while control is at pc: KeyboardInterrupt is raised there
Interrupt == pc \in Prologue \cup TryBody /\ Raise("KeyboardInterrupt")

\* mutant: the error is reported but sys.exit(1) is missing, the run goes on
ExceptImportError_NoExit ==
    /\ pc = "except_ImportError"
    /\ Stdout(<< error(<<"Ultralytics not installed. Run: pip install ultralytics">>) >>, fs)
    /\ pc' = "L75"
    /\ UNCHANGED <<cfg, fs, exc, exitCode, loaded, trainArgs, trainer, eng, results, hookLog>>

\* lines 70-72
ExceptImportError ==
    /\ pc = "except_ImportError"
    /\ Stdout(<< error(<<"Ultralytics not installed. Run: pip install ultralytics">>) >>, fs)
    /\ Exit(1)
    /\ UNCHANGED <<cfg, fs, exc, loaded, trainArgs, trainer, eng, results, hookLog>>

\* lines 174-176
ExceptKeyboardInterrupt ==
    /\ pc = "except_KeyboardInterrupt"
    /\ Stdout(<< log("warning", <<"Training interrupted by user">>) >>, fs)
    /\ Exit(0)
    /\ UNCHANGED <<cfg, fs, exc, loaded, trainArgs, trainer, eng, results, hookLog>>

\* lines 177-179
ExceptException ==
    /\ pc = "except_Exception"
    /\ Stdout(<< error(<<"Training failed: {}", exc.msg>>) >>, fs)
    /\ Exit(1)
    /\ UNCHANGED <<cfg, fs, exc, loaded, trainArgs, trainer, eng, results, hookLog>>

\* no except clause receives the exception: the interpreter prints a traceback
\* to stderr and exits with status 1, or dies of SIGINT (status 130) when the
\* exception is a KeyboardInterrupt
Uncaught ==
    /\ pc = "uncaught"
    /\ Exit(IF exc.kind = "KeyboardInterrupt" THEN 130 ELSE 1)
    /\ UNCHANGED <<cfg, stream, fsAtEmit, fs, exc, loaded, trainArgs, trainer, eng,
                   results, hookLog>>

Next ==
    \/ Import
    \/ ImportFails
    \/ InitLogs
    \/ LoadDecision
    \/ LoadModel
    \/ StartLog
    \/ TrainCall
    \/ EngineBatchEnd
    \/ EngineNextBatch
    \/ EngineEpochEnd
    \/ EngineSave
    \/ EngineNextEpoch
    \/ EngineReturn
    \/ Finals
    \/ FinalLogs
    \/ BestExists
    \/ FinalCheckpoint
    \/ Completed
    \/ Return
    \/ Fault
    \/ Interrupt
    \/ ExceptImportError
    \/ ExceptKeyboardInterrupt
    \/ ExceptException
    \/ Uncaught

Spec == Init /\ [][Next]_vars

-----------------------------------------------------------------------------
(* The event emitter on its own: any caller, any arguments.  The six        *)
(* operations are called in any order with arguments from small sets; each  *)
(* call prints its record and is logged in hookLog under the operation's    *)
(* name.                                                                    *)

EmitterOps == {"log", "progress", "metric", "checkpoint", "completed", "error"}

\* the **extra keyword arguments a caller may pass to metric
ExtraSamples == { EmptyDict, [box_loss |-> 1, cls_loss |-> 2], [type |-> "log"] }

Optionals == { None, Some(0) }

EmitterInit ==
    /\ cfg \in Configs
    /\ pc = "emitter"
    /\ stream = <<>>
    /\ fsAtEmit = <<>>
    /\ fs = {}
    /\ exc = NoExc
    /\ exitCode = -1
    /\ loaded = None
    /\ trainArgs = None
    /\ trainer = NoTrainer
    /\ eng = "idle"
    /\ results = EmptyDict
    /\ hookLog = <<>>

\* one call of an emitter operation, which prints `event`
Call(op, event) ==
    /\ pc = "emitter" /\ Len(stream) < MaxCalls
    /\ Stdout(<< event >>, fs)
    /\ hookLog' = Append(hookLog, [hook |-> op, epoch |-> 0, batch |-> 0,
                                   from |-> Len(stream), to |-> Len(stream) + 1])
    /\ UNCHANGED <<cfg, pc, fs, exc, exitCode, loaded, trainArgs, trainer, eng, results>>

CallLog ==
    \E level \in {"info", "warning", "error"} : Call("log", log(level, <<"text">>))

CallProgress ==
    \E epoch \in 1..2, step \in Optionals :
        Call("progress", progress(epoch, 2, step, IF step = None THEN None ELSE Some(5)))

CallMetric ==
    \E accuracy \in Optionals, step \in Optionals, extra \in ExtraSamples :
        Call("metric", metric(1, 3, accuracy, step, extra))

CallCheckpoint ==
    \E epoch \in 1..2 : Call("checkpoint", checkpoint(<<"weights", "best.pt">>, epoch))

CallCompleted == Call("completed", completed(3, 5, "duration"))

CallError == Call("error", error(<<"text">>))

EmitterNext ==
    \/ CallLog
    \/ CallProgress
    \/ CallMetric
    \/ CallCheckpoint
    \/ CallCompleted
    \/ CallError

EmitterSpec == EmitterInit /\ [][EmitterNext]_vars

-----------------------------------------------------------------------------
(* Vocabulary of the properties *)

Exited == pc = "exited"
EventsOfType(types) == {i \in 1..Len(stream) : stream[i].type \in types}
Terminals == EventsOfType({"completed", "error"})
WarningLog == log("warning", <<"Training interrupted by user">>)
HookCalls(hook) == {k \in 1..Len(hookLog) : hookLog[k].hook = hook}

-----------------------------------------------------------------------------
(* C1 *)

\* C1: at process exit the stream holds exactly one terminal event (completed
\* or error), or it holds none and the process exited with code 0 because of
\* an interrupt; at no time does the stream hold two terminal events.
C1_OneTerminalOrSilentInterrupt ==
    /\ Cardinality(Terminals) <= 1
    /\ Exited =>
          \/ Cardinality(Terminals) = 1
          \/ Cardinality(Terminals) = 0 /\ exitCode = 0 /\ exc.kind = "KeyboardInterrupt"

-----------------------------------------------------------------------------
(* C2 *)

\* C2: once a completed or error event has been printed, no further event of
\* any type is printed: a terminal event is always the last event of the stream.
C2_NothingAfterTerminal ==
    \A i \in Terminals : i = Len(stream)

-----------------------------------------------------------------------------
(* C3 *)

\* C3: every non-interrupt fault, raised at any line of the run, ends the
\* process with a non-zero code after exactly one error event, which carries
\* the fault's message (the fixed diagnostic when the engine is missing).
C3_EveryFaultBecomesOneError ==
    Exited /\ exc.kind \in {"ImportError", "Exception"} =>
        /\ exitCode # 0
        /\ Cardinality(EventsOfType({"error"})) = 1
        /\ stream[Len(stream)].type = "error"
        /\ exc.kind = "Exception" =>
              stream[Len(stream)].message = <<"Training failed: {}", FaultMsg(exc.at)>>

-----------------------------------------------------------------------------
(* C4 *)

\* C4: when an interrupt is delivered while the train call is in progress,
\* exactly one event is printed after the interrupt, the warning log; the
\* process then exits with code 0, and the stream holds no completed and no
\* error event.
C4_InterruptDuringTrain ==
    exc.kind = "KeyboardInterrupt" /\ exc.at = "L141" =>
        /\ Terminals = {}
        /\ pc \in {"except_KeyboardInterrupt", "exited"}
        /\ pc = "except_KeyboardInterrupt" => Len(stream) = exc.emitted /\ exitCode = -1
        /\ Exited =>
              /\ exitCode = 0
              /\ Len(stream) = exc.emitted + 1
              /\ stream[Len(stream)] = WarningLog
              /\ Cardinality({i \in 1..Len(stream) : stream[i] = WarningLog}) = 1

\* an interrupt stopped a run in the middle of its second epoch
C4_Witness ==
    /\ Exited /\ exc.kind = "KeyboardInterrupt" /\ exc.at = "L141"
    /\ trainer.epoch = 1 /\ trainer.batch = 5
    /\ stream[Len(stream)] = WarningLog

-----------------------------------------------------------------------------
(* C5 *)

\* C5: the exit code is 0 exactly when the run ended by normal completion or
\* by a user interrupt; an interrupt delivered at any line ends the process
\* with exit code 0 and without an error event.
C5_ExitCodeZeroIffCompletedOrInterrupted ==
    Exited =>
        /\ exitCode = 0 <=> exc.kind \in {"none", "KeyboardInterrupt"}
        /\ exc.kind = "KeyboardInterrupt" => EventsOfType({"error"}) = {}

-----------------------------------------------------------------------------
(* C6 *)

\* C6: when the training engine is not available, the run never enters
\* Running (no model is loaded, train is not called, nothing but the error
\* event is ever printed), and at exit the stream is the single error event
\* and the exit code is non-zero.
C6_DependencyMissing ==
    exc.kind = "ImportError" =>
        /\ loaded = None /\ trainArgs = None /\ eng = "idle"
        /\ pc \in {"except_ImportError", "exited"}
        /\ pc = "except_ImportError" => stream = <<>>
        /\ Exited =>
              /\ Len(stream) = 1
              /\ stream[1].type = "error"
              /\ exitCode # 0

C6_Witness ==
    /\ Exited /\ exc.kind = "ImportError" /\ exc.at = "L63"
    /\ stream = << error(<<"Ultralytics not installed. Run: pip install ultralytics">>) >>

-----------------------------------------------------------------------------
(* C7 *)

\* C7: the path named by every checkpoint event existed on the filesystem at
\* the moment the event was printed.
C7_CheckpointPathExists ==
    \A i \in EventsOfType({"checkpoint"}) : stream[i].path \in fsAtEmit[i]

-----------------------------------------------------------------------------
(* C8 *)

\* C8: every progress event has 1 <= epoch <= totalEpochs, and the epochs of
\* successive progress events (epoch-level and batch-level together) never
\* decrease.
C8_ProgressEpochs ==
    /\ \A i \in EventsOfType({"progress"}) :
          /\ stream[i].totalEpochs = cfg.epochs
          /\ 1 <= stream[i].epoch /\ stream[i].epoch <= stream[i].totalEpochs
    /\ \A i, j \in EventsOfType({"progress"}) :
          i < j => stream[i].epoch <= stream[j].epoch

\* a batch-level progress event of the second epoch follows the epoch-level
\* progress event of the first
C8_Witness ==
    \E i, j \in EventsOfType({"progress"}) :
        /\ i < j
        /\ stream[i].step = None /\ stream[i].epoch = 1
        /\ stream[j].step # None /\ stream[j].epoch = 2

-----------------------------------------------------------------------------
(* C9 *)

\* C9: a batch-end callback invoked with batch index b prints exactly one
\* event, the progress event with step = b and totalSteps = the number of
\* batches, when b is a multiple of 10, and prints nothing otherwise.
C9_BatchCadence ==
    \A k \in HookCalls("on_train_batch_end") :
        LET h == hookLog[k] IN
        IF h.batch % 10 = 0
        THEN /\ h.to = h.from + 1
             /\ stream[h.to] = [type |-> "progress", epoch |-> h.epoch + 1,
                                totalEpochs |-> cfg.epochs, step |-> Some(h.batch),
                                totalSteps |-> Some(trainer.train_loader)]
        ELSE h.to = h.from

\* the callback ran for batch 9 (silent) and for batch 10 (one event)
C9_Witness ==
    /\ \E k \in HookCalls("on_train_batch_end") :
          hookLog[k].batch = 9 /\ hookLog[k].to = hookLog[k].from
    /\ \E k \in HookCalls("on_train_batch_end") :
          hookLog[k].batch = 10 /\ hookLog[k].to = hookLog[k].from + 1

-----------------------------------------------------------------------------
(* C10 *)

\* C10: an epoch-end callback invocation prints exactly three events, one
\* after the other: a metric event, an epoch-level progress event (no step),
\* an info log, each reporting the epoch number engine index + 1.
C10_EpochEndTriple ==
    \A k \in HookCalls("on_train_epoch_end") :
        LET h == hookLog[k] IN
        /\ h.to = h.from + 3
        /\ stream[h.from + 1].type = "metric"
        /\ stream[h.from + 1].epoch = h.epoch + 1
        /\ stream[h.from + 2].type = "progress"
        /\ stream[h.from + 2].epoch = h.epoch + 1
        /\ stream[h.from + 2].step = None
        /\ stream[h.from + 3].type = "log"
        /\ stream[h.from + 3].level = "info"
        /\ stream[h.from + 3].message[2] = h.epoch + 1

\* the callback ran at the end of the second epoch
C10_Witness ==
    \E k \in HookCalls("on_train_epoch_end") :
        hookLog[k].epoch = 1 /\ stream[hookLog[k].to].type = "log"

-----------------------------------------------------------------------------
(* C11 *)

EpochProgress == {i \in EventsOfType({"progress"}) : stream[i].step = None}

-----------------------------------------------------------------------------
(* C12 *)

\* the index of the last metric event printed before stream[c]
LastMetricBefore(c) ==
    CHOOSE i \in EventsOfType({"metric"}) :
        i < c /\ \A j \in EventsOfType({"metric"}) : j < c => j <= i

\* C12: in every run that prints a completed event, completed.finalAccuracy
\* equals the accuracy field of the last metric event printed before it.
C12_FinalAccuracyIsLastMetricAccuracy ==
    \A c \in EventsOfType({"completed"}) :
        /\ \E i \in EventsOfType({"metric"}) : i < c
        /\ stream[c].finalAccuracy = stream[LastMetricBefore(c)].accuracy

-----------------------------------------------------------------------------
(* C13 *)

ResumeLog == log("info", <<"Resuming from last checkpoint...">>)
FreshLog == log("info", <<"Loading pretrained {} model...", cfg.model_variant>>)
InStream(event) == \E i \in 1..Len(stream) : stream[i] = event

\* C13: the model is loaded from the last checkpoint exactly when the resume
\* flag is set and the last-checkpoint file existed when the startup policy
\* ran (the fifth event is the log of that decision); in every other case
\* the pretrained baseline of the model variant is loaded, the first event
\* of the run is an info log, and the stream holds the fresh-load log and no
\* resume log.
C13_StartupPolicy ==
    loaded # None =>
        LET found == LastCheckpointPath(cfg.output_dir) \in fsAtEmit[5] IN
        /\ loaded = Some(LastCheckpointPath(cfg.output_dir)) <=> cfg.resume /\ found
        /\ cfg.resume /\ found => InStream(ResumeLog) /\ ~InStream(FreshLog)
        /\ ~(cfg.resume /\ found) =>
              /\ loaded = Some(PretrainedName(cfg.model_variant))
              /\ stream[1].type = "log" /\ stream[1].level = "info"
              /\ InStream(FreshLog)
              /\ ~InStream(ResumeLog)

\* the resume flag was set, no last checkpoint was there, the run loaded the
\* baseline and went on to train
C13_Witness ==
    /\ cfg.resume /\ LastCheckpointPath(cfg.output_dir) \notin fs
    /\ loaded = Some(PretrainedName(cfg.model_variant))
    /\ stream[5] = FreshLog
    /\ pc = "L141" /\ eng = "batch"

-----------------------------------------------------------------------------
(* C14 *)

\* the checkpoint events printed by the final check of lines 168-170, that is,
\* not by an on_model_save invocation
FinalCheckpoints ==
    {i \in EventsOfType({"checkpoint"}) :
        \A k \in HookCalls("on_model_save") : hookLog[k].to # i}

\* C14: after the train call has returned the controller prints at most one
\* more checkpoint event, and only when the best-weights artifact exists on
\* disk and no earlier checkpoint event of the run reported that artifact;
\* the completed event comes after it.
C14_FinalCheckpointOnlyIfUnreported ==
    /\ Cardinality(FinalCheckpoints) <= 1
    /\ \A i \in FinalCheckpoints :
          /\ stream[i].path = BestWeightsPath(cfg.output_dir)
          /\ stream[i].path \in fsAtEmit[i]
          /\ \A j \in EventsOfType({"checkpoint"}) : j < i => stream[j].path # stream[i].path
          /\ \A c \in EventsOfType({"completed"}) : i < c

-----------------------------------------------------------------------------
(* C15 *)

\* C15: every metric event has the fields epoch and loss, and its loss is
\* the sum of the box_loss, cls_loss and dfl_loss it carries, each of them
\* the engine's value for the epoch or 0 when the engine's metrics lack it
\* (checked against trainer.metrics for the latest epoch end); with the
\* engine's components non-negative the loss is non-negative.
C15_MetricLossIsSumOfComponents ==
    /\ \A i \in EventsOfType({"metric"}) :
          /\ {"epoch", "loss", "box_loss", "cls_loss", "dfl_loss"} \subseteq DOMAIN stream[i]
          /\ stream[i].loss = stream[i].box_loss + stream[i].cls_loss + stream[i].dfl_loss
          /\ stream[i].loss >= 0
    /\ \A k \in HookCalls("on_train_epoch_end") :
          hookLog[k].epoch = trainer.epoch =>
              LET m == stream[hookLog[k].from + 1] IN
              /\ m.box_loss = Get(trainer.metrics, "train/box_loss", 0)
              /\ m.cls_loss = Get(trainer.metrics, "train/cls_loss", 0)
              /\ m.dfl_loss = Get(trainer.metrics, "train/dfl_loss", 0)

\* a metric event for engine metrics that lack the cls and dfl components,
\* after one for metrics that have all three
C15_Witness ==
    \E i, j \in EventsOfType({"metric"}) :
        /\ i < j
        /\ stream[i].loss = 6 /\ stream[i].dfl_loss = 1
        /\ stream[j].loss = 1 /\ stream[j].cls_loss = 0 /\ stream[j].dfl_loss = 0

-----------------------------------------------------------------------------
(* C16 *)

\* C16: once the engine has saved a last checkpoint in this run, the file the
\* startup policy of a later run with the same output directory looks for is
\* that checkpoint: the two locations are the same path, so the file exists
\* and a later run with the resume flag set takes the resume path.
C16_ResumeLooksWhereEngineSaves ==
    HookCalls("on_model_save") # {} =>
        /\ EngineLast(trainer.save_dir) \in fs
        /\ LastCheckpointPath(cfg.output_dir) = EngineLast(trainer.save_dir)
        /\ LastCheckpointPath(cfg.output_dir) \in fs

-----------------------------------------------------------------------------
(* C17 *)

\* C17: on the resume path (the model was loaded from the last checkpoint)
\* the train call is given the resume flag, and the first epoch the run
\* reports is the checkpoint's next epoch, not epoch 1.
C17_ResumePassedToTrain ==
    loaded = Some(LastCheckpointPath(cfg.output_dir)) /\ trainArgs # None =>
        /\ "resume" \in DOMAIN trainArgs[1]
        /\ trainArgs[1].resume
        /\ \A i \in EventsOfType({"progress"}) : stream[i].epoch >= CheckpointNextEpoch + 1

-----------------------------------------------------------------------------
(* C18 *)

\* C18: the record printed by a call of an emitter operation has a type field
\* equal to that operation's own type, whatever the arguments, extra fields
\* of metric included.
C18_TypeIsTheOperation ==
    \A k \in 1..Len(hookLog) :
        hookLog[k].hook \in EmitterOps =>
            /\ "type" \in DOMAIN stream[hookLog[k].to]
            /\ stream[hookLog[k].to].type = hookLog[k].hook

-----------------------------------------------------------------------------
(* C19 *)

\* C19: the record of a progress event printed without a step (the epoch-level
\* event of on_train_epoch_end) has no step and no totalSteps field, and the
\* record of one printed with a step (on_train_batch_end) has both.
C19_StepFieldsOnlyWithStep ==
    /\ \A k \in HookCalls("on_train_epoch_end") :
          {"step", "totalSteps"} \cap DOMAIN stream[hookLog[k].from + 2] = {}
    /\ \A k \in HookCalls("on_train_batch_end") :
          hookLog[k].to > hookLog[k].from =>
              /\ {"step", "totalSteps"} \subseteq DOMAIN stream[hookLog[k].to]
              /\ stream[hookLog[k].to].step # None
              /\ stream[hookLog[k].to].totalSteps # None

====
